---- MODULE Spec2Model ----
(***************************************************************************)
(* Model of weavebox's graceful-shutdown server (server.go, the revision   *)
(* with the quit and fquit channels): the entry points, the coordinator    *)
(* serve, the signal watcher closeNotify, the goroutine that runs the      *)
(* engine's Serve call, and the ConnState callback that drives the         *)
(* WaitGroup.                                                              *)
(*                                                                         *)
(* Second part: the application object of weavebox.go (the revision with   *)
(* Box and BindContext): New, Use, Box, Reset, BindContext, the            *)
(* registration of a route, and a request served through ServeHTTP and the *)
(* closure of makeHTTPRouterHandle.  A middleware slice is a Go slice: a   *)
(* header (array, len, cap) over a backing array that copies of the header *)
(* share.                                                                  *)
(***************************************************************************)
EXTENDS Integers, Sequences, FiniteSets, TLC

\* ------------------------------------------------------------------ bounds
MaxConns == 2

Conns == 1..MaxConns

\* The application: boxes that exist (the Weavebox of New() is box 1),
\* handlers passed to Use in all, routes registered in all.
MaxBoxes == 3

MaxHandlers == 5

MaxRoutes == 1

\* The bytes one response carries in all.
MaxBytes == 2

Root == 1

\* http.StatusOK, http.StatusMultipleChoices, http.StatusTemporaryRedirect
StatusOK == 200

StatusMultipleChoices == 300

StatusTemporaryRedirect == 307

\* The codes handlers pass to WriteHeader, and the codes they pass to
\* Redirect: the range the code accepts and its neighbours on both sides.
StatusCodes == {StatusOK, 404}

RedirectCodes == (StatusMultipleChoices - 2)..(StatusTemporaryRedirect + 2)

ErrInvalidRedirect == <<"invalid", "redirect", "code">>

\* The values a user binds with BindContext.
Contexts == {"ctxA", "ctxB"}

\* --------------------------------------------------------------- constants
\* make(chan struct{}, 1), make(chan error, 1), make(chan os.Signal, 1)
ChanCap == 1

\* Error messages are sequences of words; strings.Contains is a search for a
\* contiguous run of words.
useClosedConn == <<"use", "of", "closed", "network", "connection">>

ErrStoppedGracefully == <<"server", "stopped", "gracefully">>

ErrProcessKilled == <<"server", "stopped:", "process", "killed">>

NoErr == <<>>

\* What tls.LoadX509KeyPair and net.Listen can fail with.
CertErrors == {<<"open", "cert.pem:", "no", "such", "file">>}

ListenErrors == {<<"listen", "tcp:", "address", "already", "in", "use">>}

\* What Accept fails with once the listener has been closed: the bare message
\* and the net.OpError form that wraps it.
ClosedErrors ==
    {useClosedConn, <<"accept", "tcp", ":8080:">> \o useClosedConn}

\* What Accept can fail with while the listener is still open.
FatalErrors ==
    {<<"accept", "tcp:", "too", "many", "open", "files">>,
     <<"use", "of", "closed", "file">>}

\* The signals closeNotify registers with signal.Notify.
NotifiedSignals == {"SIGTERM", "SIGKILL", "SIGQUIT", "SIGUSR2", "SIGINT"}

\* ------------------------------------------------------------------- state
VARIABLES
    pc,         \* position of the caller's task: entry point, then serve
    certFiles,  \* input: the cert and key files given to ListenAndServeTLS:
                \* "good" when they load, "bad" when not, "none" otherwise
    bindOK,     \* input: the address can be bound
    result,     \* the error returned to the caller, NoErr while running
    listener,   \* "none", "open" or "closed"
    closedBy,   \* who has called l.Close(): subset of {"watcher", "engine"}
    wPC,        \* position of the closeNotify goroutine
    sigChan,    \* closeNotify's sig channel
    sign,       \* the signal closeNotify received, "none" before
    quit,       \* number of values buffered in s.quit
    fquit,      \* number of values buffered in s.fquit
    ePC,        \* position of the goroutine running s.Server.Serve(l)
    errChan,    \* the errChan channel
    serveErr,   \* the error s.Server.Serve(l) returned, NoErr before
    conn,       \* state last reported for each connection
    wg,         \* the WaitGroup counter
    keepAlives, \* the engine's keep-alive switch
    halted,     \* the process died of an unrecovered panic
    middleware, \* per box, the header of its middleware slice
    heap,       \* the backing arrays of the middleware slices
    context,    \* per box, its context field: "nil", "Background" or bound
    parent,     \* per box, the box whose Box call made it; 0 for New()
    used,       \* per box, how many handlers have been passed to its Use
    registered, \* per box, the handlers it had from its parent when made
                \* followed by those passed to its Use; emptied by Reset
    routes,     \* the boxes a route was registered on
    EnableLog,  \* the EnableLog field of the Weavebox
    logSetByUser, \* the user has assigned EnableLog = true
    last,       \* the run of the last request, NoRequest after any call
                \* that is not a request
    logger,     \* the responseLogger of the request: its status and size
    rw,         \* the ResponseWriter it wraps: whether the header is
                \* written, the status and the bytes sent, and how far the
                \* request is
    redirect,   \* the last call of Redirect: its code and what it returned
    logLine     \* the status and size writeLog printed for the request

serverVars == <<pc, certFiles, bindOK, result, listener, closedBy, wPC, sigChan, sign, quit,
                fquit, ePC, errChan, serveErr, conn, wg, keepAlives, halted>>

responseVars == <<logger, rw, redirect, logLine>>

appVars == <<middleware, heap, context, parent, used, registered, routes,
             EnableLog, logSetByUser, last, responseVars>>

vars == <<serverVars, appVars>>

inputVars == <<certFiles, bindOK>>

mainVars == <<pc, inputVars, result>>

watcherVars == <<wPC, sigChan, sign>>

engineVars == <<ePC, errChan, serveErr>>

\* strings.Contains(s, sub)
Contains(s, sub) ==
    \E i \in 0..(Len(s) - Len(sub)) : SubSeq(s, i + 1, i + Len(sub)) = sub

\* ------------------------------------------------------------ construction
\* A nil slice.
NilSlice == [arr |-> 0, len |-> 0, cap |-> 0]

NoRequest ==
    [box |-> 0, ran |-> <<>>, rets |-> <<>>, errs |-> <<>>, ctx |-> "nil",
     logged |-> FALSE]

\* &responseLogger{w: rw}
NewLogger == [status |-> 0, size |-> 0]

\* A ResponseWriter nothing was written to; phase "idle" before the request,
\* "handler" while its handlers run, "done" when the response is complete.
NewWriter(phase) ==
    [phase |-> phase, wroteHeader |-> FALSE, status |-> 0, written |-> 0]

NoCall == [code |-> 0, err |-> <<>>]

NoLine == [status |-> 0, size |-> 0, printed |-> FALSE]

\* The Weavebox as New() returns it.
New ==
    /\ logger = NewLogger
    /\ rw = NewWriter("idle")
    /\ redirect = NoCall
    /\ logLine = NoLine
    /\ middleware = <<NilSlice>>
    /\ heap = <<>>
    /\ context = <<"nil">>
    /\ parent = <<0>>
    /\ used = <<0>>
    /\ registered = << <<>> >>
    /\ routes = {}
    /\ EnableLog = TRUE
    /\ logSetByUser = FALSE
    /\ last = NoRequest

\* The server as newServer returns it, before an entry point is called.
\* Whether the address can be bound is fixed by the environment.
Init ==
    /\ New
    /\ pc = "entry"
    /\ certFiles = "none"
    /\ bindOK \in BOOLEAN
    /\ result = NoErr
    /\ listener = "none"
    /\ closedBy = {}
    /\ wPC = "none"
    /\ sigChan = <<>>
    /\ sign = "none"
    /\ quit = 0
    /\ fquit = 0
    /\ ePC = "none"
    /\ errChan = <<>>
    /\ serveErr = NoErr
    /\ conn = [c \in Conns |-> "none"]
    /\ wg = 0
    /\ keepAlives = TRUE
    /\ halted = FALSE

\* ------------------------------------------------------------ entry points
ListenAndServe ==
    /\ ~halted
    /\ UNCHANGED appVars
    /\ pc = "entry"
    /\ pc' = "listen"
    /\ UNCHANGED <<inputVars, result, listener, closedBy, watcherVars, quit,
                   fquit, engineVars, conn, wg, keepAlives, halted>>

ListenAndServeTLS(files) ==
    /\ ~halted
    /\ UNCHANGED appVars
    /\ pc = "entry"
    /\ pc' = "listenTLS"
    /\ certFiles' = files
    /\ UNCHANGED <<bindOK, result, listener, closedBy, watcherVars, quit,
                   fquit, engineVars, conn, wg, keepAlives, halted>>

\* net.Listen and what follows it in listen and in listenTLS: return the
\* error, or call serve with the listener.
netListen ==
    /\ ~halted
    /\ UNCHANGED appVars
    /\ pc \in {"listen", "listenTLSbind"}
    /\ IF bindOK
         THEN /\ listener' = "open"
              /\ pc' = "serve"
              /\ UNCHANGED result
         ELSE /\ \E err \in ListenErrors : result' = err
              /\ pc' = "return_listen"
              /\ UNCHANGED listener
    /\ UNCHANGED <<inputVars, closedBy, watcherVars, quit, fquit,
                   engineVars, conn, wg, keepAlives, halted>>

\* Faulty variant of LoadX509KeyPair: listenTLS binds the address first and
\* loads the key pair afterwards.
LoadX509KeyPair_afterListen ==
    /\ ~halted
    /\ UNCHANGED appVars
    /\ pc = "listenTLS"
    /\ IF ~bindOK
         THEN /\ \E err \in ListenErrors : result' = err
              /\ pc' = "return_listen"
              /\ UNCHANGED listener
         ELSE /\ listener' = "open"
              /\ IF certFiles = "good"
                   THEN /\ pc' = "serve"
                        /\ UNCHANGED result
                   ELSE /\ \E err \in CertErrors : result' = err
                        /\ pc' = "return_listen"
    /\ UNCHANGED <<inputVars, closedBy, watcherVars, quit, fquit,
                   engineVars, conn, wg, keepAlives, halted>>

\* listenTLS up to net.Listen: tls.LoadX509KeyPair, and the return of its
\* error.
LoadX509KeyPair ==
    /\ ~halted
    /\ UNCHANGED appVars
    /\ pc = "listenTLS"
    /\ IF certFiles = "good"
         THEN /\ pc' = "listenTLSbind"
              /\ UNCHANGED result
         ELSE /\ \E err \in CertErrors : result' = err
              /\ pc' = "return_listen"
    /\ UNCHANGED <<inputVars, listener, closedBy, watcherVars, quit,
                   fquit, engineVars, conn, wg, keepAlives, halted>>

\* ------------------------------------------------------------------- serve
\* serve up to its for loop: ConnState is installed, closeNotify and the
\* goroutine around s.Server.Serve(l) are started, errChan is made.
serve ==
    /\ ~halted
    /\ UNCHANGED appVars
    /\ pc = "serve"
    /\ pc' = "select"
    /\ wPC' = "notify"
    /\ ePC' = "accept"
    /\ errChan' = <<>>
    /\ UNCHANGED <<inputVars, result, listener, closedBy, sigChan,
                   sign, quit, fquit, serveErr, conn, wg, keepAlives, halted>>

\* Faulty variant of ConnState: StateHijacked has no case.
ConnState_noHijack(state) ==
    CASE state = "StateNew" -> wg + 1
      [] state = "StateClosed" -> wg - 1
      [] OTHER -> wg

\* The ConnState callback: what a state change does to the WaitGroup.
ConnState(state) ==
    CASE state = "StateNew" -> wg + 1
      [] state \in {"StateClosed", "StateHijacked"} -> wg - 1
      [] OTHER -> wg

\* Faulty variant of isUseClosedConn: no error is taken for the
\* closed-listener error.
isUseClosedConn_never(err) == FALSE

\* Faulty variant of isUseClosedConn: err.Error() == useClosedConn
isUseClosedConn_exact(err) == err = useClosedConn

\* strings.Contains(err.Error(), useClosedConn)
isUseClosedConn(err) == Contains(err, useClosedConn)

\* Faulty variant of serve_errChan: the error is returned wrapped in a new
\* error.
serve_errChan_wrapped ==
    /\ ~halted
    /\ UNCHANGED appVars
    /\ pc = "select"
    /\ errChan # <<>>
    /\ errChan' = Tail(errChan)
    /\ IF isUseClosedConn(Head(errChan))
         THEN UNCHANGED <<pc, result>>
         ELSE /\ result' = <<"serve:">> \o Head(errChan)
              /\ pc' = "return_serve"
    /\ UNCHANGED <<inputVars, listener, closedBy, watcherVars, quit,
                   fquit, ePC, serveErr, conn, wg, keepAlives, halted>>

\* Faulty variant of serve_errChan: the error is kept as the outcome but the
\* loop is not left.
serve_errChan_keepsSelecting ==
    /\ ~halted
    /\ UNCHANGED appVars
    /\ pc = "select"
    /\ errChan # <<>>
    /\ errChan' = Tail(errChan)
    /\ IF isUseClosedConn(Head(errChan))
         THEN UNCHANGED result
         ELSE result' = Head(errChan)
    /\ UNCHANGED <<pc, inputVars, listener, closedBy, watcherVars, quit,
                   fquit, ePC, serveErr, conn, wg, keepAlives, halted>>

\* case err := <-errChan
serve_errChan ==
    /\ ~halted
    /\ UNCHANGED appVars
    /\ pc = "select"
    /\ errChan # <<>>
    /\ errChan' = Tail(errChan)
    /\ IF isUseClosedConn(Head(errChan))
         THEN UNCHANGED <<pc, result>>  \* continue
         ELSE /\ result' = Head(errChan)
              /\ pc' = "return_serve"
    /\ UNCHANGED <<inputVars, listener, closedBy, watcherVars, quit,
                   fquit, ePC, serveErr, conn, wg, keepAlives, halted>>

\* Faulty variant of serve_quit: the wait starts with keep-alives enabled.
serve_quit_keepAlives ==
    /\ ~halted
    /\ UNCHANGED appVars
    /\ pc = "select"
    /\ quit > 0
    /\ quit' = quit - 1
    /\ pc' = "wait"
    /\ UNCHANGED <<inputVars, result, listener, closedBy, watcherVars,
                   fquit, engineVars, conn, wg, keepAlives, halted>>

\* case <-s.quit, up to the call of s.wg.Wait()
serve_quit ==
    /\ ~halted
    /\ UNCHANGED appVars
    /\ pc = "select"
    /\ quit > 0
    /\ quit' = quit - 1
    /\ keepAlives' = FALSE
    /\ pc' = "wait"
    /\ UNCHANGED <<inputVars, result, listener, closedBy, watcherVars,
                   fquit, engineVars, conn, wg, halted>>

\* Faulty variant of wgWait: the wait does not block.
wgWait_notBlocking == TRUE

\* s.wg.Wait() can return
wgWait == wg = 0

\* Faulty variant of serve_Wait: the wait gives up while connections are
\* open and serve returns the forced result.
serve_Wait_escalating ==
    /\ ~halted
    /\ UNCHANGED appVars
    /\ pc = "wait"
    /\ result' = IF wg = 0 THEN ErrStoppedGracefully ELSE ErrProcessKilled
    /\ pc' = "return_serve"
    /\ UNCHANGED <<inputVars, listener, closedBy, watcherVars, quit,
                   fquit, engineVars, conn, wg, keepAlives, halted>>

\* s.wg.Wait() returns and serve returns the graceful result
serve_Wait ==
    /\ ~halted
    /\ UNCHANGED appVars
    /\ pc = "wait"
    /\ wgWait
    /\ result' = ErrStoppedGracefully
    /\ pc' = "return_serve"
    /\ UNCHANGED <<inputVars, listener, closedBy, watcherVars, quit,
                   fquit, engineVars, conn, wg, keepAlives, halted>>

\* Faulty variant of serve_fquit: the forced branch waits for the WaitGroup
\* too.
serve_fquit_draining ==
    /\ ~halted
    /\ UNCHANGED appVars
    /\ pc = "select"
    /\ fquit > 0
    /\ wg = 0
    /\ fquit' = fquit - 1
    /\ result' = ErrProcessKilled
    /\ pc' = "return_serve"
    /\ UNCHANGED <<inputVars, listener, closedBy, watcherVars, quit,
                   engineVars, conn, wg, keepAlives, halted>>

\* case <-s.fquit
serve_fquit ==
    /\ ~halted
    /\ UNCHANGED appVars
    /\ pc = "select"
    /\ fquit > 0
    /\ fquit' = fquit - 1
    /\ result' = ErrProcessKilled
    /\ pc' = "return_serve"
    /\ UNCHANGED <<inputVars, listener, closedBy, watcherVars, quit,
                   engineVars, conn, wg, keepAlives, halted>>

\* ------------------------------------------------------------- closeNotify
\* signal.Notify(sig, ...)
closeNotify_Notify ==
    /\ ~halted
    /\ UNCHANGED appVars
    /\ wPC = "notify"
    /\ wPC' = "recv"
    /\ UNCHANGED <<mainVars, listener, closedBy, sigChan, sign, quit, fquit,
                   engineVars, conn, wg, keepAlives, halted>>

\* The runtime hands a registered signal to sig without blocking: it is
\* dropped when the channel is full.
Signal(sg) ==
    /\ ~halted
    /\ UNCHANGED appVars
    /\ wPC \notin {"none", "notify"}
    /\ sigChan' = IF Len(sigChan) < ChanCap THEN Append(sigChan, sg)
                                            ELSE sigChan
    /\ UNCHANGED <<mainVars, listener, closedBy, wPC, sign, quit, fquit,
                   engineVars, conn, wg, keepAlives, halted>>

\* sign := <-sig
closeNotify_recv ==
    /\ ~halted
    /\ UNCHANGED appVars
    /\ wPC = "recv"
    /\ sigChan # <<>>
    /\ sign' = Head(sigChan)
    /\ sigChan' = Tail(sigChan)
    /\ wPC' = "switch"
    /\ UNCHANGED <<mainVars, listener, closedBy, quit, fquit, engineVars, conn,
                   wg, keepAlives, halted>>

\* Faulty variant of caseOf: SIGINT is missing from the first case.
caseOf_noSIGINT(sg) ==
    CASE sg \in {"SIGTERM", "SIGQUIT"} -> "quit"
      [] sg = "SIGKILL" -> "fquit"
      [] sg = "SIGUSR2" -> "panic"
      [] OTHER -> "nocase"

\* Faulty variant of caseOf: the SIGKILL case publishes to quit.
caseOf_killToQuit(sg) ==
    CASE sg \in {"SIGTERM", "SIGQUIT", "SIGINT", "SIGKILL"} -> "quit"
      [] sg = "SIGUSR2" -> "panic"
      [] OTHER -> "nocase"

\* The channel each case of the switch publishes to; "panic" for the case
\* that panics.
caseOf(sg) ==
    CASE sg \in {"SIGTERM", "SIGQUIT", "SIGINT"} -> "quit"
      [] sg = "SIGKILL" -> "fquit"
      [] sg = "SIGUSR2" -> "panic"
      [] OTHER -> "nocase"

\* Faulty variant of closeNotify_Close: l.Close() is not called before the
\* send.
closeNotify_Close_skipped ==
    /\ ~halted
    /\ UNCHANGED appVars
    /\ wPC = "switch"
    /\ caseOf(sign) \in {"quit", "fquit"}
    /\ wPC' = "send"
    /\ UNCHANGED <<mainVars, listener, closedBy, sigChan, sign, quit, fquit,
                   engineVars, conn, wg, keepAlives, halted>>

\* l.Close() in the first two cases
closeNotify_Close ==
    /\ ~halted
    /\ UNCHANGED appVars
    /\ wPC = "switch"
    /\ caseOf(sign) \in {"quit", "fquit"}
    /\ listener' = "closed"
    /\ closedBy' = closedBy \cup {"watcher"}
    /\ wPC' = "send"
    /\ UNCHANGED <<mainVars, sigChan, sign, quit, fquit, engineVars, conn, wg,
                   keepAlives, halted>>

\* Faulty variant of closeNotify_send: closeNotify loops and waits for the
\* next signal.
closeNotify_send_looping ==
    /\ ~halted
    /\ UNCHANGED appVars
    /\ wPC = "send"
    /\ \/ /\ caseOf(sign) = "quit"
          /\ quit < ChanCap
          /\ quit' = quit + 1
          /\ UNCHANGED fquit
       \/ /\ caseOf(sign) = "fquit"
          /\ fquit < ChanCap
          /\ fquit' = fquit + 1
          /\ UNCHANGED quit
    /\ wPC' = "recv"
    /\ UNCHANGED <<mainVars, listener, closedBy, sigChan, sign, engineVars,
                   conn, wg, keepAlives, halted>>

\* Faulty variant of closeNotify_send: the first case falls through into the
\* second and sends on both channels.
closeNotify_send_both ==
    /\ ~halted
    /\ UNCHANGED appVars
    /\ wPC = "send"
    /\ \/ /\ caseOf(sign) = "quit"
          /\ quit < ChanCap
          /\ fquit < ChanCap
          /\ quit' = quit + 1
          /\ fquit' = fquit + 1
       \/ /\ caseOf(sign) = "fquit"
          /\ fquit < ChanCap
          /\ fquit' = fquit + 1
          /\ UNCHANGED quit
    /\ wPC' = "exit"
    /\ UNCHANGED <<mainVars, listener, closedBy, sigChan, sign, engineVars,
                   conn, wg, keepAlives, halted>>

\* Faulty variant of closeNotify_send: the channels are unbuffered and the
\* send completes only while serve is at its select.
closeNotify_send_unbuffered ==
    /\ ~halted
    /\ UNCHANGED appVars
    /\ wPC = "send"
    /\ pc = "select"
    /\ \/ /\ caseOf(sign) = "quit"
          /\ quit < ChanCap
          /\ quit' = quit + 1
          /\ UNCHANGED fquit
       \/ /\ caseOf(sign) = "fquit"
          /\ fquit < ChanCap
          /\ fquit' = fquit + 1
          /\ UNCHANGED quit
    /\ wPC' = "exit"
    /\ UNCHANGED <<mainVars, listener, closedBy, sigChan, sign, engineVars,
                   conn, wg, keepAlives, halted>>

\* s.quit <- struct{}{} or s.fquit <- struct{}{}; a send blocks while the
\* channel is full
closeNotify_send ==
    /\ ~halted
    /\ UNCHANGED appVars
    /\ wPC = "send"
    /\ \/ /\ caseOf(sign) = "quit"
          /\ quit < ChanCap
          /\ quit' = quit + 1
          /\ UNCHANGED fquit
       \/ /\ caseOf(sign) = "fquit"
          /\ fquit < ChanCap
          /\ fquit' = fquit + 1
          /\ UNCHANGED quit
    /\ wPC' = "exit"
    /\ UNCHANGED <<mainVars, listener, closedBy, sigChan, sign, engineVars,
                   conn, wg, keepAlives, halted>>

\* Faulty variant of closeNotify_panic: the case returns without a panic.
closeNotify_panic_ignored ==
    /\ ~halted
    /\ UNCHANGED appVars
    /\ wPC = "switch"
    /\ caseOf(sign) = "panic"
    /\ wPC' = "exit"
    /\ UNCHANGED <<mainVars, listener, closedBy, sigChan, sign, quit, fquit,
                   engineVars, conn, wg, keepAlives, halted>>

\* panic("USR2 => not implemented"): an unrecovered panic in a goroutine ends
\* the process
closeNotify_panic ==
    /\ ~halted
    /\ UNCHANGED appVars
    /\ wPC = "switch"
    /\ caseOf(sign) = "panic"
    /\ wPC' = "panic"
    /\ halted' = TRUE
    /\ UNCHANGED <<mainVars, listener, closedBy, sigChan, sign, quit, fquit,
                   engineVars, conn, wg, keepAlives>>

\* ------------------------------------------- s.Server.Serve(l) and ConnState
\* Accept returns a connection; connections are numbered as they are
\* accepted
Serve_Accept(c) ==
    /\ ~halted
    /\ UNCHANGED appVars
    /\ ePC = "accept"
    /\ listener = "open"
    /\ conn[c] = "none"
    /\ \A d \in Conns : d < c => conn[d] # "none"
    /\ conn' = [conn EXCEPT ![c] = "accepted"]
    /\ ePC' = "setState"
    /\ UNCHANGED <<mainVars, listener, closedBy, watcherVars, quit, fquit,
                   errChan, serveErr, wg, keepAlives, halted>>

\* the engine reports StateNew for the accepted connection, from the
\* accept loop, and starts the connection's task
Serve_StateNew(c) ==
    /\ ~halted
    /\ UNCHANGED appVars
    /\ ePC = "setState"
    /\ conn[c] = "accepted"
    /\ conn' = [conn EXCEPT ![c] = "StateNew"]
    /\ wg' = ConnState("StateNew")
    /\ ePC' = "accept"
    /\ UNCHANGED <<mainVars, listener, closedBy, watcherVars, quit, fquit,
                   errChan, serveErr, keepAlives, halted>>

\* the connection's task reports StateActive: a state the callback has no
\* case for
Conn_Active(c) ==
    /\ ~halted
    /\ UNCHANGED appVars
    /\ conn[c] = "StateNew"
    /\ conn' = [conn EXCEPT ![c] = "StateActive"]
    /\ wg' = ConnState("StateActive")
    /\ UNCHANGED <<mainVars, listener, closedBy, watcherVars, quit, fquit,
                   engineVars, keepAlives, halted>>

\* the connection's task reports StateClosed
Conn_Closed(c) ==
    /\ ~halted
    /\ UNCHANGED appVars
    /\ conn[c] \in {"StateNew", "StateActive"}
    /\ conn' = [conn EXCEPT ![c] = "StateClosed"]
    /\ wg' = ConnState("StateClosed")
    /\ UNCHANGED <<mainVars, listener, closedBy, watcherVars, quit, fquit,
                   engineVars, keepAlives, halted>>

\* the connection's task reports StateHijacked
Conn_Hijacked(c) ==
    /\ ~halted
    /\ UNCHANGED appVars
    /\ conn[c] = "StateActive"
    /\ conn' = [conn EXCEPT ![c] = "StateHijacked"]
    /\ wg' = ConnState("StateHijacked")
    /\ UNCHANGED <<mainVars, listener, closedBy, watcherVars, quit, fquit,
                   engineVars, keepAlives, halted>>

\* Accept fails, Serve closes the listener (its deferred l.Close()) and
\* returns the error, which the goroutine sends on errChan. On a closed
\* listener the error is the closed-listener one; on an open listener it is
\* whatever the environment makes Accept fail with, text of the
\* closed-listener error included.
Serve_return ==
    /\ ~halted
    /\ UNCHANGED appVars
    /\ ePC = "accept"
    /\ \E err \in (IF listener = "closed" THEN ClosedErrors
                   ELSE FatalErrors \cup ClosedErrors) :
         /\ serveErr' = err
         /\ errChan' = Append(errChan, err)
    /\ Len(errChan) < ChanCap
    /\ listener' = "closed"
    /\ closedBy' = closedBy \cup {"engine"}
    /\ ePC' = "returned"
    /\ UNCHANGED <<mainVars, watcherVars, quit, fquit, conn, wg, keepAlives,
                   halted>>

\* ------------------------------------------------------------ specification
Coordinator ==
    \/ ListenAndServe
    \/ \E files \in {"good", "bad"} : ListenAndServeTLS(files)
    \/ LoadX509KeyPair
    \/ netListen
    \/ serve
    \/ serve_errChan
    \/ serve_quit
    \/ serve_Wait
    \/ serve_fquit

Watcher ==
    \/ closeNotify_Notify
    \/ closeNotify_recv
    \/ closeNotify_Close
    \/ closeNotify_send
    \/ closeNotify_panic

Engine ==
    \/ \E c \in Conns : Serve_Accept(c)
    \/ \E c \in Conns : Serve_StateNew(c)
    \/ Serve_return

Connections ==
    \/ \E c \in Conns : Conn_Active(c)
    \/ \E c \in Conns : Conn_Closed(c)
    \/ \E c \in Conns : Conn_Hijacked(c)

Environment == \E sg \in NotifiedSignals : Signal(sg)

Next ==
    \/ Coordinator
    \/ Watcher
    \/ Engine
    \/ Connections
    \/ Environment

Spec == Init /\ [][Next]_vars

TypeOK ==
    /\ certFiles \in {"none", "good", "bad"}
    /\ bindOK \in BOOLEAN
    /\ pc \in {"entry", "listen", "listenTLS", "listenTLSbind", "serve",
               "select", "wait", "return_listen", "return_serve"}
    /\ listener \in {"none", "open", "closed"}
    /\ closedBy \subseteq {"watcher", "engine"}
    /\ wPC \in {"none", "notify", "recv", "switch", "send", "exit", "panic"}
    /\ Len(sigChan) <= ChanCap
    /\ sign \in NotifiedSignals \cup {"none"}
    /\ quit \in 0..ChanCap
    /\ fquit \in 0..ChanCap
    /\ ePC \in {"none", "accept", "setState", "returned"}
    /\ Len(errChan) <= ChanCap
    /\ wg \in 0..MaxConns
    /\ keepAlives \in BOOLEAN
    /\ halted \in BOOLEAN

\* Fairness the scheduler gives: the caller's task and the closeNotify
\* goroutine run when they can. Nothing is assumed of the connections.
FairSpec == Spec /\ WF_vars(Coordinator) /\ WF_vars(Watcher)

\* The same, and every open connection eventually reports StateClosed unless
\* it is hijacked first.
DrainSpec == FairSpec /\ \A c \in Conns : WF_vars(Conn_Closed(c))

\* ------------------------------------------------ the CloseTimeout revision
\* The earlier revision of server.go whose Server carries CloseTimeout and
\* one stop channel, quit. Its entry points, the start of serve, the engine
\* and the watcher up to l.Close() read as in the revision above and share
\* its actions; its select loop and the sends of closeNotify differ.

\* case err := <-errChan: return err
Server_serve_errChan ==
    /\ ~halted
    /\ UNCHANGED appVars
    /\ pc = "select"
    /\ errChan # <<>>
    /\ errChan' = Tail(errChan)
    /\ result' = Head(errChan)
    /\ pc' = "return_serve"
    /\ UNCHANGED <<inputVars, listener, closedBy, watcherVars, quit,
                   fquit, ePC, serveErr, conn, wg, keepAlives, halted>>

\* case <-s.quit, up to the call of s.wg.Wait()
Server_serve_quit ==
    /\ ~halted
    /\ UNCHANGED appVars
    /\ pc = "select"
    /\ quit > 0
    /\ quit' = quit - 1
    /\ pc' = "wait"
    /\ UNCHANGED <<inputVars, result, listener, closedBy, watcherVars,
                   fquit, engineVars, conn, wg, keepAlives, halted>>

\* Faulty variant of Server_serve_Wait: the break leaves the for loop and
\* serve returns nil.
Server_serve_Wait_leavesLoop ==
    /\ ~halted
    /\ UNCHANGED appVars
    /\ pc = "wait"
    /\ wgWait
    /\ pc' = "return_serve"
    /\ UNCHANGED <<inputVars, result, listener, closedBy, watcherVars,
                   quit, fquit, engineVars, conn, wg, keepAlives, halted>>

\* s.wg.Wait() returns; the break ends the select statement and the for loop
\* selects again
Server_serve_Wait ==
    /\ ~halted
    /\ UNCHANGED appVars
    /\ pc = "wait"
    /\ wgWait
    /\ pc' = "select"
    /\ UNCHANGED <<inputVars, result, listener, closedBy, watcherVars,
                   quit, fquit, engineVars, conn, wg, keepAlives, halted>>

\* s.quit <- struct{}{}, in the case of SIGTERM, SIGQUIT, SIGINT and in the
\* case of SIGKILL alike
Server_closeNotify_send ==
    /\ ~halted
    /\ UNCHANGED appVars
    /\ wPC = "send"
    /\ quit < ChanCap
    /\ quit' = quit + 1
    /\ wPC' = "exit"
    /\ UNCHANGED <<mainVars, listener, closedBy, sigChan, sign, fquit,
                   engineVars, conn, wg, keepAlives, halted>>

ServerCoordinator ==
    \/ ListenAndServe
    \/ \E files \in {"good", "bad"} : ListenAndServeTLS(files)
    \/ LoadX509KeyPair
    \/ netListen
    \/ serve
    \/ Server_serve_errChan
    \/ Server_serve_quit
    \/ Server_serve_Wait

ServerWatcher ==
    \/ closeNotify_Notify
    \/ closeNotify_recv
    \/ closeNotify_Close
    \/ Server_closeNotify_send
    \/ closeNotify_panic

ServerNext ==
    \/ ServerCoordinator
    \/ ServerWatcher
    \/ Engine
    \/ Connections
    \/ Environment

ServerSpec == Init /\ [][ServerNext]_vars

\* ------------------------------------------------------------- application
Boxes == 1..Len(middleware)

\* The zero value of a slot of a backing array.
NoHandler == <<0, 0>>

\* The k-th handler passed to Use of box b, and the handler of b's route.
Middleware(b, k) == <<b, k>>

RouteHandler(b) == <<b, 0>>

NoError == <<>>

\* The error a failing handler returns.
Err(h) == <<"error", h[1], h[2]>>

\* The elements of a slice: the first len slots of its backing array.
Elems(hp, sl) == IF sl.arr = 0 THEN <<>> ELSE SubSeq(hp[sl.arr], 1, sl.len)

\* The capacity append gives a slice that is full when one element is added.
growslice(cap) == IF cap = 0 THEN 1 ELSE 2 * cap

\* w.middleware = append(w.middleware, h) on box b, in the slices st.mw over
\* the arrays st.hp: the element goes into the spare capacity of the array
\* the header points to, or into a new array when there is none.
append(st, b, h) ==
    LET sl == st.mw[b]
        old == Elems(st.hp, sl)
        newcap == growslice(sl.cap)
        arr == [i \in 1..newcap |->
                  IF i <= sl.len THEN old[i]
                  ELSE IF i = sl.len + 1 THEN h ELSE NoHandler]
    IN  IF sl.len < sl.cap
        THEN [mw |-> [st.mw EXCEPT ![b].len = sl.len + 1],
              hp |-> [st.hp EXCEPT ![sl.arr][sl.len + 1] = h]]
        ELSE [mw |-> [st.mw EXCEPT ![b] = [arr |-> Len(st.hp) + 1,
                                             len |-> sl.len + 1,
                                             cap |-> newcap]],
              hp |-> Append(st.hp, arr)]

\* The loop of Use over its arguments.
RECURSIVE appendAll(_, _, _)
appendAll(st, b, hs) ==
    IF hs = <<>> THEN st
    ELSE appendAll(append(st, b, Head(hs)), b, Tail(hs))

\* The arrays some header points to, in the order of the boxes.
RECURSIVE liveArrays(_, _)
liveArrays(mw, acc) ==
    IF mw = <<>> THEN acc
    ELSE LET a == Head(mw).arr
             seen == \E i \in 1..Len(acc) : acc[i] = a
         IN  liveArrays(Tail(mw), IF a = 0 \/ seen THEN acc ELSE Append(acc, a))

\* What the program can still observe of the memory: the arrays no header
\* points to are collected, the others are numbered in the order of the
\* boxes, and a slot beyond the len of every header on its array, which is
\* written before it is ever read, holds the zero value.
reachable(st) ==
    LET live == liveArrays(st.mw, <<>>)
        index(a) == IF a = 0 THEN 0
                    ELSE CHOOSE i \in 1..Len(live) : live[i] = a
        maxLen(a) == CHOOSE n \in 0..Len(st.hp[a]) :
                        /\ \E b \in 1..Len(st.mw) :
                              st.mw[b].arr = a /\ st.mw[b].len = n
                        /\ \A b \in 1..Len(st.mw) :
                              st.mw[b].arr = a => st.mw[b].len <= n
    IN  [mw |-> [b \in 1..Len(st.mw) |->
                   [st.mw[b] EXCEPT !.arr = index(st.mw[b].arr)]],
         hp |-> [i \in 1..Len(live) |->
                   [k \in 1..Len(st.hp[live[i]]) |->
                      IF k <= maxLen(live[i]) THEN st.hp[live[i]][k]
                      ELSE NoHandler]]]

RECURSIVE Sum(_)
Sum(s) == IF s = <<>> THEN 0 ELSE Head(s) + Sum(Tail(s))

\* w.Use(h1, ..., hn) on box b
Use(b, n) ==
    /\ Sum(used) + n <= MaxHandlers
    /\ LET hs == [i \in 1..n |-> Middleware(b, used[b] + i)]
           st == reachable(appendAll([mw |-> middleware, hp |-> heap], b, hs))
       IN  /\ middleware' = st.mw
           /\ heap' = st.hp
           /\ registered' = [registered EXCEPT ![b] = @ \o hs]
    /\ used' = [used EXCEPT ![b] = @ + n]
    /\ last' = NoRequest
    /\ UNCHANGED <<serverVars, responseVars, context, parent, routes, EnableLog,
                   logSetByUser>>

\* p.Box(prefix): the new box is a copy of the struct of p
Box(p) ==
    /\ Len(middleware) < MaxBoxes
    /\ middleware' = Append(middleware, middleware[p])
    /\ context' = Append(context, context[p])
    /\ parent' = Append(parent, p)
    /\ used' = Append(used, 0)
    /\ registered' = Append(registered, registered[p])
    /\ last' = NoRequest
    /\ UNCHANGED <<serverVars, responseVars, heap, routes, EnableLog, logSetByUser>>

\* b.Reset(), a method of Box only
Reset(b) ==
    /\ b # Root
    /\ LET st == reachable([mw |-> [middleware EXCEPT ![b] = NilSlice],
                             hp |-> heap])
       IN  /\ middleware' = st.mw
           /\ heap' = st.hp
    /\ registered' = [registered EXCEPT ![b] = <<>>]
    /\ last' = NoRequest
    /\ UNCHANGED <<serverVars, responseVars, context, parent, used, routes, EnableLog,
                   logSetByUser>>

\* Faulty variant of BindContext: the context is set on every box.
BindContext_shared(b, ctx) ==
    /\ context' = [x \in Boxes |-> ctx]
    /\ last' = NoRequest
    /\ UNCHANGED <<serverVars, responseVars, middleware, heap, parent, used, registered,
                   routes, EnableLog, logSetByUser>>

\* b.BindContext(ctx)
BindContext(b, ctx) ==
    /\ context' = [context EXCEPT ![b] = ctx]
    /\ last' = NoRequest
    /\ UNCHANGED <<serverVars, responseVars, middleware, heap, parent, used, registered,
                   routes, EnableLog, logSetByUser>>

\* b.Get(route, h) and the other verbs: the router gets the closure of
\* makeHTTPRouterHandle over box b
add(b) ==
    /\ b \notin routes
    /\ Cardinality(routes) < MaxRoutes
    /\ routes' = routes \cup {b}
    /\ last' = NoRequest
    /\ UNCHANGED <<serverVars, responseVars, middleware, heap, context, parent, used,
                   registered, EnableLog, logSetByUser>>

\* The user assigns the exported field: app.EnableLog = v
SetEnableLog(v) ==
    /\ EnableLog' = v
    /\ logSetByUser' = (logSetByUser \/ v)
    /\ last' = NoRequest
    /\ UNCHANGED <<serverVars, responseVars, middleware, heap, context, parent, used,
                   registered, routes>>

\* Faulty variant of the loop over the middleware: no return after the
\* ErrorHandler call.
RECURSIVE runMiddleware_noReturn(_, _, _, _)
runMiddleware_noReturn(mws, i, fails, acc) ==
    IF i > Len(mws) THEN acc
    ELSE LET err == IF i \in fails THEN Err(mws[i]) ELSE NoError
             acc1 == [acc EXCEPT !.ran = Append(@, mws[i]),
                                 !.rets = Append(@, err)]
         IN  IF err # NoError
             THEN runMiddleware_noReturn(mws, i + 1, fails,
                                         [acc1 EXCEPT !.errs = Append(@, err)])
             ELSE runMiddleware_noReturn(mws, i + 1, fails, acc1)

\* The loop of the closure over w.middleware from element i on: each handler
\* is called; the first error goes to ErrorHandler and the closure returns.
RECURSIVE runMiddleware(_, _, _, _)
runMiddleware(mws, i, fails, acc) ==
    IF i > Len(mws) THEN acc
    ELSE LET err == IF i \in fails THEN Err(mws[i]) ELSE NoError
             acc1 == [acc EXCEPT !.ran = Append(@, mws[i]),
                                 !.rets = Append(@, err)]
         IN  IF err # NoError
             THEN [acc1 EXCEPT !.errs = Append(@, err), !.returned = TRUE]
             ELSE runMiddleware(mws, i + 1, fails, acc1)

\* The closure makeHTTPRouterHandle(h) returns, run over the middleware mws
\* with the handlers at the positions in fails returning an error (position
\* Len(mws) + 1 is h): what ran, what each returned, and what ErrorHandler
\* was called with.
makeHTTPRouterHandle(mws, h, fails) ==
    LET start == [ran |-> <<>>, rets |-> <<>>, errs |-> <<>>,
                  returned |-> FALSE]
        r == runMiddleware(mws, 1, fails, start)
        err == IF (Len(mws) + 1) \in fails THEN Err(h) ELSE NoError
    IN  IF r.returned THEN r
        ELSE [ran |-> Append(r.ran, h),
              rets |-> Append(r.rets, err),
              errs |-> IF err # NoError THEN Append(r.errs, err) ELSE r.errs,
              returned |-> TRUE]

\* The handlers that fail in one request: at most two positions of 1..n.
FailSets(n) == {f \in SUBSET (1..n) : Cardinality(f) <= 2}

\* A request for the route of box b comes in through ServeHTTP of the
\* Weavebox: the router runs the closure of b, and ServeHTTP writes the
\* access-log line when EnableLog is set.
ServeHTTP(b, fails) ==
    /\ b \in routes
    /\ LET ctx == IF context[b] = "nil" THEN "Background" ELSE context[b]
           r == makeHTTPRouterHandle(Elems(heap, middleware[b]),
                                     RouteHandler(b), fails)
       IN  /\ context' = [context EXCEPT ![b] = ctx]
           /\ last' = [box |-> b, ran |-> r.ran, rets |-> r.rets,
                       errs |-> r.errs, ctx |-> ctx, logged |-> EnableLog]
    /\ UNCHANGED <<serverVars, responseVars, middleware, heap, parent, used, registered,
                   routes, EnableLog, logSetByUser>>

Request ==
    \E b \in Boxes :
      \E fails \in FailSets(middleware[b].len + 1) : ServeHTTP(b, fails)

\* The middleware, the context and EnableLog are fields that no operation
\* reads together: Box copies each into the same field of the new box, and
\* every other operation touches one of them. They are explored in
\* specifications of their own, each with the requests.

\* Middleware on every box: Use, Box and Reset in any order.
MiddlewareNext ==
    \/ \E b \in Boxes, n \in 1..2 : Use(b, n)
    \/ \E p \in Boxes : Box(p)
    \/ \E b \in Boxes : Reset(b)
    \/ \E b \in Boxes : add(b)
    \/ Request

\* Contexts on every box.
ContextNext ==
    \/ \E b \in Boxes, ctx \in Contexts : BindContext(b, ctx)
    \/ \E p \in Boxes : Box(p)
    \/ \E b \in Boxes : add(b)
    \/ Request

\* A Weavebox without boxes: its middleware and its access-log switch.
RequestNext ==
    \/ \E b \in Boxes, n \in 1..2 : Use(b, n)
    \/ \E v \in BOOLEAN : SetEnableLog(v)
    \/ \E b \in Boxes : add(b)
    \/ Request

\* The application is configured and serves requests; the server part stays
\* as constructed.
AppInit == Init /\ bindOK

MiddlewareSpec == AppInit /\ [][MiddlewareNext]_vars

ContextSpec == AppInit /\ [][ContextNext]_vars

RequestSpec == AppInit /\ [][RequestNext]_vars

\* ---------------------------------------------------------- the response
\* One request at a time with the access-log enabled: the handlers write
\* to the responseLogger that ServeHTTP puts around the ResponseWriter.
configVars == <<middleware, heap, context, parent, used, registered, routes,
                EnableLog, logSetByUser, last>>

\* WriteHeader of the wrapped ResponseWriter: the first call sets the status
\* the client receives, a later one is ignored.
rwWriteHeader(w, code) ==
    IF w.wroteHeader THEN w
    ELSE [w EXCEPT !.wroteHeader = TRUE, !.status = code]

\* Write of the wrapped ResponseWriter reporting k bytes written: the header
\* goes out with http.StatusOK if it has not been written.
rwWrite(w, k) ==
    [rwWriteHeader(w, StatusOK) EXCEPT !.written = @ + k]

\* responseLogger.Write on the logger st.l around the writer st.w, the
\* writer reporting k bytes
Write(st, k) ==
    [l |-> [status |-> IF st.l.status = 0 THEN StatusOK ELSE st.l.status,
            size |-> st.l.size + k],
     w |-> rwWrite(st.w, k)]

\* responseLogger.WriteHeader
WriteHeader(st, code) ==
    [l |-> [st.l EXCEPT !.status = code],
     w |-> rwWriteHeader(st.w, code)]

\* http.Redirect on the response: the header with the code, and for a GET a
\* short body.
httpRedirect(st, code, method) ==
    IF method = "GET" THEN Write(WriteHeader(st, code), 1)
    ELSE WriteHeader(st, code)

\* Faulty variant of Redirect: the lower limit is exclusive.
Redirect_exclusive(st, code, method) ==
    IF code <= StatusMultipleChoices \/ code > StatusTemporaryRedirect
    THEN [st |-> st, err |-> ErrInvalidRedirect]
    ELSE [st |-> httpRedirect(st, code, method), err |-> NoError]

\* Context.Redirect: the response afterwards and the error returned
Redirect(st, code, method) ==
    IF code < StatusMultipleChoices \/ code > StatusTemporaryRedirect
    THEN [st |-> st, err |-> ErrInvalidRedirect]
    ELSE [st |-> httpRedirect(st, code, method), err |-> NoError]

\* ServeHTTP with EnableLog set, up to the call of the router: a new
\* responseLogger around the ResponseWriter of the request
ServeHTTP_logger ==
    /\ EnableLog
    /\ rw.phase \in {"idle", "done"}
    /\ logger' = NewLogger
    /\ rw' = NewWriter("handler")
    /\ redirect' = NoCall
    /\ logLine' = NoLine
    /\ UNCHANGED <<serverVars, configVars>>

\* a handler calls Write on the response; the writer reports k bytes
Handler_Write(k) ==
    /\ rw.phase = "handler"
    /\ rw.written + k <= MaxBytes
    /\ LET st == Write([l |-> logger, w |-> rw], k)
       IN  logger' = st.l /\ rw' = st.w
    /\ redirect' = NoCall
    /\ UNCHANGED <<serverVars, configVars, logLine>>

\* a handler calls WriteHeader on the response
Handler_WriteHeader(code) ==
    /\ rw.phase = "handler"
    /\ LET st == WriteHeader([l |-> logger, w |-> rw], code)
       IN  logger' = st.l /\ rw' = st.w
    /\ redirect' = NoCall
    /\ UNCHANGED <<serverVars, configVars, logLine>>

\* a handler calls ctx.Redirect(url, code)
Handler_Redirect(code, method) ==
    /\ rw.phase = "handler"
    /\ LET r == Redirect([l |-> logger, w |-> rw], code, method)
       IN  /\ r.st.w.written <= MaxBytes
           /\ logger' = r.st.l
           /\ rw' = r.st.w
           /\ redirect' = [code |-> code, err |-> r.err]
    /\ UNCHANGED <<serverVars, configVars, logLine>>

\* the router returns and ServeHTTP calls writeLog with logger.Status() and
\* logger.Size(); the engine then completes the response, with
\* http.StatusOK when no header was written
ServeHTTP_writeLog ==
    /\ rw.phase = "handler"
    /\ logLine' = [status |-> logger.status, size |-> logger.size,
                   printed |-> TRUE]
    /\ rw' = [rwWriteHeader(rw, StatusOK) EXCEPT !.phase = "done"]
    /\ redirect' = NoCall
    /\ UNCHANGED <<serverVars, configVars, logger>>

ResponseNext ==
    \/ ServeHTTP_logger
    \/ \E k \in 0..MaxBytes : Handler_Write(k)
    \/ \E code \in StatusCodes : Handler_WriteHeader(code)
    \/ \E code \in RedirectCodes, method \in {"GET", "POST"} :
         Handler_Redirect(code, method)
    \/ ServeHTTP_writeLog

ResponseSpec == AppInit /\ [][ResponseNext]_vars

\* ------------------------------------------------------------------ claims
InFlight(c) == conn[c] \in {"StateNew", "StateActive"}

Matched(c) == conn[c] \in {"StateClosed", "StateHijacked"}

Sentinels == {ErrStoppedGracefully, ErrProcessKilled}

\* C1: serve returns the graceful result only from a state where the tracker
\* count is zero and no connection that reported StateNew is still without
\* its StateClosed or StateHijacked.
C1_DrainReleasesAtZero ==
    [][(result' = ErrStoppedGracefully /\ result # ErrStoppedGracefully)
         => /\ wg = 0
            /\ \A c \in Conns : ~InFlight(c)
            /\ wg' = 0
            /\ \A c \in Conns : ~InFlight(c)']_vars

C1_Witness ==
    /\ pc = "return_serve"
    /\ result = ErrStoppedGracefully
    /\ \A c \in Conns : Matched(c)

\* C2: once SIGKILL is the signal closeNotify received, serve returns the
\* forced result (or the engine's own failure, when that was taken first)
\* although no connection ever has to close: the forced branch is enabled
\* whenever fquit holds a value, whatever the count, and taking it leaves the
\* count and the connections as they are.
C2_ForcedStopDoesNotWait ==
    /\ []((pc = "select" /\ fquit > 0) => ENABLED serve_fquit)
    /\ [][(result' = ErrProcessKilled /\ result # ErrProcessKilled)
            => (wg' = wg /\ conn' = conn)]_vars
    /\ (sign = "SIGKILL")
         ~> (pc = "return_serve"
             /\ (result = ErrProcessKilled \/ result \in FatalErrors))

C2_Witness ==
    /\ sign = "SIGKILL"
    /\ pc = "return_serve"
    /\ result = ErrProcessKilled
    /\ wg = MaxConns
    /\ \A c \in Conns : InFlight(c)

\* C3: once SIGINT, SIGQUIT or SIGTERM is the signal closeNotify received,
\* and every open connection eventually closes, serve returns the graceful
\* result (unless the engine failed on its own with another error); in the
\* wait with a count of zero the return needs no further event.
C3_GracefulStopReturns ==
    /\ []((pc = "wait" /\ wg = 0) => ENABLED serve_Wait)
    /\ (sign \in {"SIGINT", "SIGQUIT", "SIGTERM"})
         ~> (pc = "return_serve"
             /\ (result = ErrStoppedGracefully \/ serveErr \in FatalErrors))

\* the closed-listener error was taken from errChan and dropped before the
\* stop signal was taken
C3_Witness ==
    /\ sign \in {"SIGINT", "SIGQUIT", "SIGTERM"}
    /\ pc = "return_serve"
    /\ result = ErrStoppedGracefully
    /\ serveErr \in ClosedErrors
    /\ errChan = <<>>
    /\ wg = 0

StopPublished ==
    \/ quit > 0
    \/ fquit > 0
    \/ pc = "wait"
    \/ result \in Sentinels

\* C4: when closeNotify is about to send, and whenever a stop signal is in a
\* stop channel or has been taken by serve, the listener is closed, and from
\* such a state no connection is accepted.
C4_ClosedBeforePublished ==
    /\ []((wPC = "send" \/ StopPublished) => listener = "closed")
    /\ [][StopPublished
            => \A c \in Conns : conn'[c] = "accepted" => conn[c] = "accepted"]_vars

C4_Witness ==
    /\ StopPublished
    /\ "watcher" \in closedBy
    /\ ePC = "accept"
    /\ \E c \in Conns : conn[c] = "none"

\* C5: what serve returns never contains the closed-listener message: it is
\* one of the two stop results, or the engine's error and does not contain
\* the message.
C5_BenignErrorNeverReturned ==
    pc = "return_serve"
      => /\ ~Contains(result, useClosedConn)
         /\ result \in Sentinels \/ result = serveErr

C5_Witness ==
    /\ pc = "return_serve"
    /\ serveErr = <<"accept", "tcp", ":8080:">> \o useClosedConn
    /\ errChan = <<>>
    /\ result \in Sentinels

\* C6: when serve takes from errChan an error that is not the closed-listener
\* error, it returns that very error, keep-alives are left enabled and the
\* wait is not entered; a result of serve that is no stop result is the
\* engine's error.
C6_EngineErrorUnchanged ==
    /\ [][(pc = "select" /\ errChan # <<>> /\ errChan' # errChan
             /\ ~Contains(Head(errChan), useClosedConn))
            => /\ pc' = "return_serve"
               /\ result' = Head(errChan)
               /\ result' = serveErr
               /\ keepAlives'
               /\ wg' = wg]_vars
    /\ []((pc = "return_serve" /\ result \notin Sentinels)
            => (result = serveErr /\ result \in FatalErrors /\ keepAlives))

C6_Witness ==
    /\ pc = "return_serve"
    /\ result = <<"use", "of", "closed", "file">>
    /\ result = serveErr
    /\ wg > 0
    /\ keepAlives

Terminal == pc = "return_serve"

\* C7: serve has an outcome exactly when it has returned, the outcome is the
\* engine's error or one of the two stop results, and once it has returned
\* the outcome never changes and serve takes nothing more from its channels
\* and touches the engine no more.
C7_SingleTerminalOutcome ==
    /\ [](pc \in {"serve", "select", "wait"} => result = NoErr)
    /\ [](Terminal => result \in FatalErrors \cup Sentinels)
    /\ [][Terminal
            => /\ Terminal'
               /\ result' = result
               /\ keepAlives' = keepAlives
               /\ quit' >= quit
               /\ fquit' >= fquit
               /\ Len(errChan') >= Len(errChan)]_vars

\* serve has returned the engine's error and a stop signal is published later
C7_Witness ==
    /\ Terminal
    /\ result \in FatalErrors
    /\ quit + fquit > 0

\* C8: closeNotify sends on quit alone for SIGTERM, SIGQUIT and SIGINT and
\* on fquit alone for SIGKILL; after one of the first three serve never
\* returns the forced result, after SIGKILL never the graceful one.
C8_SignalMapping ==
    /\ [][(wPC = "send" /\ wPC' = "exit")
            => IF sign \in {"SIGTERM", "SIGQUIT", "SIGINT"}
                 THEN quit' = quit + 1 /\ fquit' = fquit
                 ELSE sign = "SIGKILL" /\ fquit' = fquit + 1 /\ quit' = quit]_vars
    /\ [](sign \in {"SIGTERM", "SIGQUIT", "SIGINT"}
            => (fquit = 0 /\ result # ErrProcessKilled))
    /\ [](sign = "SIGKILL"
            => (quit = 0 /\ pc # "wait" /\ result # ErrStoppedGracefully))
    /\ [](result = ErrStoppedGracefully
            => sign \in {"SIGTERM", "SIGQUIT", "SIGINT"})
    /\ [](result = ErrProcessKilled => sign = "SIGKILL")

C8_Witness ==
    /\ sign = "SIGKILL"
    /\ wPC = "exit"
    /\ fquit = 1
    /\ quit = 0
    /\ sigChan # <<>>
    /\ Head(sigChan) = "SIGINT"

\* C9: when SIGUSR2 is the signal closeNotify received, the goroutine panics
\* and the process is dead: closeNotify has not closed the listener, nothing
\* is in quit or fquit, serve has not entered the wait and has returned
\* neither stop result, and nothing happens after the panic.
C9_ReloadSignalHalts ==
    /\ [](sign = "SIGUSR2"
            => /\ wPC \in {"switch", "panic"}
               /\ (wPC = "panic") = halted
               /\ "watcher" \notin closedBy
               /\ quit = 0
               /\ fquit = 0
               /\ pc # "wait"
               /\ result \notin Sentinels)
    /\ [](halted => sign = "SIGUSR2")
    /\ [][~halted]_vars
    /\ (sign = "SIGUSR2") ~> halted

C9_Witness ==
    /\ sign = "SIGUSR2"
    /\ halted
    /\ pc = "select"
    /\ listener = "open"
    /\ wg > 0

\* C10: when the key pair does not load in ListenAndServeTLS, or the address
\* cannot be bound in either entry point, the entry point returns that error,
\* closeNotify and the engine's goroutine are never started and serve is
\* never entered; after a key pair failure no listener was opened.
C10_EntryErrorsReturnEarly ==
    /\ (certFiles = "bad" /\ pc # "listenTLS")
         => /\ pc = "return_listen"
            /\ result \in CertErrors
            /\ listener = "none"
            /\ wPC = "none"
            /\ ePC = "none"
    /\ (~bindOK /\ certFiles # "bad"
          /\ pc \notin {"entry", "listen", "listenTLS", "listenTLSbind"})
         => /\ pc = "return_listen"
            /\ result \in ListenErrors
            /\ listener = "none"
            /\ wPC = "none"
            /\ ePC = "none"
    /\ pc = "return_listen" => (wPC = "none" /\ ePC = "none" /\ wg = 0)

\* the key pair does not load although the address could have been bound
C10_Witness ==
    /\ certFiles = "bad"
    /\ bindOK
    /\ pc = "return_listen"
    /\ result \in CertErrors

\* C11: from the wait serve can only stay in the wait or return the graceful
\* result; while a connection is open no step of serve is possible, whatever
\* signals have been delivered since.
C11_NoTimeoutNoEscalation ==
    /\ [][pc = "wait"
            => \/ pc' = "wait" /\ result' = result
               \/ pc' = "return_serve" /\ result' = ErrStoppedGracefully]_vars
    /\ []((pc = "wait" /\ wg > 0) => ~ENABLED Coordinator)
    /\ [](pc = "wait" => fquit = 0)

\* serve is in the wait with a connection open and SIGKILL was delivered
\* after the graceful signal
C11_Witness ==
    /\ pc = "wait"
    /\ wg > 0
    /\ sign \in {"SIGINT", "SIGQUIT", "SIGTERM"}
    /\ sigChan = <<"SIGKILL">>

GracefulPublished ==
    /\ wPC = "exit"
    /\ sign \in {"SIGINT", "SIGQUIT", "SIGTERM"}

\* C18: once closeNotify has sent on quit no StateNew callback raises the
\* count, and once serve has returned the graceful result no connection is
\* in flight.
C18_NoOpenAfterGracefulStop ==
    /\ [][GracefulPublished => wg' <= wg]_vars
    /\ [](result = ErrStoppedGracefully
            => (wg = 0 /\ \A c \in Conns : ~InFlight(c)))

\* serve has returned the graceful result and a connection accepted before
\* l.Close() is counted as open
C18_Witness ==
    /\ result = ErrStoppedGracefully
    /\ wg > 0
    /\ \E c \in Conns : InFlight(c)

ErrChanFired == serveErr # NoErr

QuitFired == quit > 0 \/ pc = "wait" \/ result = ErrStoppedGracefully

FquitFired == fquit > 0 \/ result = ErrProcessKilled

FiredSources ==
    {src \in {"errChan", "quit", "fquit"} :
       \/ src = "errChan" /\ ErrChanFired
       \/ src = "quit" /\ QuitFired
       \/ src = "fquit" /\ FquitFired}

\* C19 as stated: at most one of errChan, quit and fquit ever fires, and when
\* serve has returned exactly one has.
C19_ExactlyOneSourceFires ==
    /\ Cardinality(FiredSources) <= 1
    /\ Terminal => Cardinality(FiredSources) = 1

\* C19 as amended: quit and fquit never both fire and never hold more than
\* one value together; the branch serve returned through is that of a source
\* that fired; errChan may have fired as well, and then carries the engine's
\* own failure or the closed-listener error that follows an l.Close().
C19_OneStopSourceFires ==
    /\ ~(QuitFired /\ FquitFired)
    /\ quit + fquit <= 1
    /\ Len(errChan) <= 1
    /\ result \in FatalErrors => ErrChanFired
    /\ result = ErrStoppedGracefully => (QuitFired /\ ~FquitFired)
    /\ result = ErrProcessKilled => (FquitFired /\ ~QuitFired)
    /\ (ErrChanFired /\ (QuitFired \/ FquitFired) /\ serveErr \in ClosedErrors)
         => closedBy # {}

\* errChan and quit both fired and serve returned through quit
C19_Witness ==
    /\ Terminal
    /\ result = ErrStoppedGracefully
    /\ FiredSources = {"errChan", "quit"}
    /\ serveErr \in ClosedErrors

\* The positions of closeNotify in program order.
WatcherRank(p) ==
    CASE p = "none" -> 0
      [] p = "notify" -> 1
      [] p = "recv" -> 2
      [] p = "switch" -> 3
      [] p \in {"send", "panic"} -> 4
      [] OTHER -> 5

\* C20: closeNotify never goes back to an earlier position, so it receives
\* one signal, closes the listener at most once and sends at most once: a
\* value enters quit or fquit only in its one send, one value in one channel,
\* and the signal it acted on never changes, whatever is delivered later.
C20_WatcherOneShot ==
    /\ [][/\ wPC' # wPC => WatcherRank(wPC') > WatcherRank(wPC)
          /\ (quit' > quit \/ fquit' > fquit)
               => /\ wPC = "send"
                  /\ wPC' = "exit"
                  /\ quit' + fquit' = quit + fquit + 1
          /\ ("watcher" \in closedBy' /\ "watcher" \notin closedBy)
               => (wPC = "switch" /\ wPC' = "send")
          /\ sign' # sign => (wPC = "recv" /\ sign = "none")]_vars
    /\ [](quit + fquit <= 1 /\ ~(QuitFired /\ FquitFired))
    /\ [](wPC = "exit" => "watcher" \in closedBy)

\* closeNotify has exited after SIGTERM and a later SIGKILL stays in sig
C20_Witness ==
    /\ wPC = "exit"
    /\ sign = "SIGTERM"
    /\ sigChan = <<"SIGKILL">>
    /\ fquit = 0
    /\ result # ErrProcessKilled

\* C21: the count is never negative and is the number of connections that
\* have reported StateNew and neither StateClosed nor StateHijacked; it goes
\* up by one exactly when a connection reports StateNew, down by one exactly
\* when an open connection reports StateClosed or StateHijacked, and a
\* connection that has reported either reports nothing more.
C21_CountIsOpenConnections ==
    /\ [](wg >= 0 /\ wg = Cardinality({c \in Conns : InFlight(c)}))
    /\ [][/\ wg' = wg + 1
               <=> \E c \in Conns : conn[c] = "accepted" /\ conn'[c] = "StateNew"
          /\ wg' = wg - 1
               <=> \E c \in Conns : InFlight(c) /\ Matched(c)'
          /\ wg' \in {wg - 1, wg, wg + 1}
          /\ \A c \in Conns : Matched(c) => conn'[c] = conn[c]]_vars

\* during the drain wait one connection is open and another was hijacked
C21_Witness ==
    /\ pc = "wait"
    /\ wg = 1
    /\ \E c, d \in Conns : conn[c] = "StateHijacked" /\ InFlight(d)

\* C22: keep-alives are disabled exactly when serve is in the drain wait or
\* has returned the graceful result, so they are disabled before the wait
\* starts and the return comes after it; when serve has returned the forced
\* result or the engine's error they are still enabled and the wait was
\* never entered.
C22_KeepAlivesOnGracefulPathOnly ==
    /\ [](keepAlives <=> ~(pc = "wait" \/ result = ErrStoppedGracefully))
    /\ [](result = ErrStoppedGracefully => pc = "return_serve")
    /\ [][/\ pc' = "wait" => (pc \in {"select", "wait"} /\ ~keepAlives')
          /\ (result' = ErrStoppedGracefully /\ result # ErrStoppedGracefully)
               => pc = "wait"
          /\ (result' \in FatalErrors \cup {ErrProcessKilled} /\ result' # result)
               => (pc = "select" /\ keepAlives /\ keepAlives')]_vars

\* serve has returned the graceful result after waiting for a connection
C22_Witness ==
    /\ result = ErrStoppedGracefully
    /\ ~keepAlives
    /\ \E c \in Conns : conn[c] = "StateClosed"

\* C23: the listener is closed by one party only, the watcher or the engine,
\* and it is closed exactly when one of them has closed it.
C23_ListenerClosedOnce ==
    /\ Cardinality(closedBy) <= 1
    /\ listener = "closed" <=> closedBy # {}

\* serve has returned the engine's error and then the watcher closed the
\* listener the engine had closed
C23_Witness ==
    /\ result \in FatalErrors
    /\ closedBy = {"watcher", "engine"}
    /\ wPC = "exit"

\* C25: the send of closeNotify can always complete, the channel being
\* empty when the watcher reaches it, also after serve has returned; and a
\* watcher that has received a signal ends, sent or panicked.
C25_WatcherNeverBlocks ==
    /\ [](wPC = "send" => (quit = 0 /\ fquit = 0 /\ ENABLED closeNotify_send))
    /\ (wPC = "switch") ~> (wPC \in {"exit", "panic"})

\* the watcher has sent on quit after serve returned the engine's error
C25_Witness ==
    /\ result \in FatalErrors
    /\ pc = "return_serve"
    /\ wPC = "exit"
    /\ quit = 1

\* No signal has reached closeNotify or waits in sig.
NoSignalDelivered == sign = "none" /\ sigChan = <<>>

\* C24: while no signal has been delivered, an engine that returned the
\* closed-listener error leaves serve running; once the engine has returned
\* errChan receives nothing more; after that error serve leaves its select
\* only through a stop channel that holds a value, and with the error
\* taken and both stop channels empty it has no step at all.
C24_BenignErrorLeavesServeBlocked ==
    /\ []((NoSignalDelivered /\ serveErr \in ClosedErrors)
            => (pc = "select" /\ result = NoErr))
    /\ [][ePC = "returned" => Len(errChan') <= Len(errChan)]_vars
    /\ [][(pc = "select" /\ serveErr \in ClosedErrors /\ pc' # "select")
            => (quit > 0 \/ fquit > 0)]_vars
    /\ []((pc = "select" /\ ePC = "returned" /\ errChan = <<>>
             /\ quit = 0 /\ fquit = 0)
            => ~ENABLED Coordinator)

\* the engine returned the closed-listener error with no signal delivered,
\* serve took it from errChan and is back at its select
C24_Witness ==
    /\ NoSignalDelivered
    /\ wPC = "recv"
    /\ serveErr \in ClosedErrors
    /\ errChan = <<>>
    /\ pc = "select"

\* C26: in the CloseTimeout revision the quit branch goes from the wait back
\* to the select and sets no result; serve returns only by taking the
\* engine's error from errChan and returns it as it is, the closed-listener
\* error included, so it never returns nil; and the wait has no timeout:
\* while a connection is open serve has no step.
C26_QuitBranchLoopsAgain ==
    /\ [][pc = "wait" => (pc' \in {"wait", "select"} /\ result' = result)]_vars
    /\ [][pc' = "return_serve" /\ pc = "select"
            => (errChan # <<>> /\ result' = Head(errChan))]_vars
    /\ [](pc = "return_serve"
            => (result # NoErr /\ result = serveErr
                /\ result \in FatalErrors \cup ClosedErrors))
    /\ []((pc = "wait" /\ wg > 0) => ~ENABLED ServerCoordinator)

\* after SIGTERM, the drain wait and the close of a connection, serve selected
\* again and returned the closed-listener error
C26_Witness ==
    /\ pc = "return_serve"
    /\ result \in ClosedErrors
    /\ sign = "SIGTERM"
    /\ quit = 0
    /\ wPC = "exit"
    /\ \E c \in Conns : conn[c] = "StateClosed"

\* ------------------------------------------------- claims, the application
\* The middleware a request for a route of box b runs through.
Chain(b) == Elems(heap, middleware[b])

\* The box whose Use call, or whose route, a handler was given to.
Owner(h) == h[1]

\* Box b and the boxes it descends from.
RECURSIVE AncestorsOf(_)
AncestorsOf(b) == IF b = 0 THEN {} ELSE {b} \cup AncestorsOf(parent[b])

Served == last.box # 0

\* No handler of the last request returned an error.
NoErrors == \A i \in DOMAIN last.rets : last.rets[i] = NoError

\* Box b holds handlers of its own Use calls only and no box was made from it.
OwnOnly(b) ==
    /\ \A i \in DOMAIN registered[b] : Owner(registered[b][i]) = b
    /\ \A x \in Boxes : parent[x] # b

\* C12: a request runs only handlers given to the box of its route or to a
\* box that box descends from, never one given to Use of a box made from it
\* or of a sibling; and a box that holds only its own handlers, as after
\* Box(prefix).Reset().Use(m3, m4), runs exactly those.
C12_MiddlewareSeparate ==
    /\ Served
         => \A i \in DOMAIN last.ran : Owner(last.ran[i]) \in AncestorsOf(last.box)
    /\ (Served /\ NoErrors /\ OwnOnly(last.box))
         => last.ran = Append(registered[last.box], RouteHandler(last.box))

\* a request for a route of the Weavebox ran a handler given to Use of a box
C12_Witness ==
    /\ last.box = Root
    /\ \E i \in DOMAIN last.ran : Owner(last.ran[i]) # Root

\* C13: when no handler returns an error, a request runs the middleware of
\* the box of its route in the order of registration, each once, and then
\* the route handler.
C13_MiddlewareInOrder ==
    (Served /\ NoErrors)
      => last.ran = Append(registered[last.box], RouteHandler(last.box))

\* a request ran to the end without one of the handlers registered on its box
C13_Witness ==
    /\ Served
    /\ NoErrors
    /\ \E i \in DOMAIN registered[last.box] :
         \A k \in DOMAIN last.ran : last.ran[k] # registered[last.box][i]

\* C14: a handler that returns an error is the last one to run and
\* ErrorHandler is called once, with that error; when no handler returns an
\* error ErrorHandler is not called.
C14_ErrorHandledOnce ==
    Served =>
      /\ Len(last.errs) <= 1
      /\ Len(last.rets) = Len(last.ran)
      /\ \A i \in DOMAIN last.rets :
           last.rets[i] # NoError
             => /\ i = Len(last.ran)
                /\ last.rets[i] = Err(last.ran[i])
                /\ last.errs = <<last.rets[i]>>
      /\ NoErrors => (last.errs = <<>> /\ Len(last.ran) = Len(Chain(last.box)) + 1)

\* the second of at least three middleware returned an error and the rest
\* was not run
C14_Witness ==
    /\ Served
    /\ Len(Chain(last.box)) >= 3
    /\ Len(last.ran) = 2
    /\ last.errs = <<Err(last.ran[2])>>

\* C15: a new box holds the middleware its parent had registered, in order;
\* a request for its route runs, of the handlers that are not its own,
\* exactly those it inherited and still holds, in order: all of the
\* parent's, or none after Reset.
C15_BoxInheritsParent ==
    /\ [][Len(middleware') = Len(middleware) + 1
            => Elems(heap', middleware'[Len(middleware')])
                 = registered[parent'[Len(middleware')]]]_vars
    /\ []((Served /\ NoErrors)
            => SelectSeq(last.ran, LAMBDA h : Owner(h) # last.box)
                 = SelectSeq(registered[last.box], LAMBDA h : Owner(h) # last.box))

\* a request for a route of a box ran without a handler the box inherited
C15_Witness ==
    /\ Served
    /\ NoErrors
    /\ last.box # Root
    /\ \E i \in DOMAIN registered[last.box] :
         /\ Owner(registered[last.box][i]) # last.box
         /\ \A k \in DOMAIN last.ran : last.ran[k] # registered[last.box][i]

\* C16: the handlers of a request receive the context of the box of the
\* route, the background context when none is bound; a new box starts with
\* the context of its parent; and a step changes the context of one box at
\* most, so that BindContext on a box leaves every other box as it was.
C16_ContextBinding ==
    /\ [][/\ Len(context') = Len(context) + 1
               => context'[Len(context')] = context[parent'[Len(context')]]
          /\ last' # NoRequest
               => last'.ctx = IF context[last'.box] = "nil" THEN "Background"
                              ELSE context[last'.box]
          /\ \A b \in Boxes :
               context'[b] # context[b]
                 => \A x \in Boxes \ {b} : context'[x] = context[x]
          /\ \A b \in Boxes :
               (context[b] # "nil" /\ last' = NoRequest /\ context'[b] # context[b])
                 => context'[b] \in Contexts]_vars
    /\ [](Served => (last.ctx = context[last.box] /\ last.ctx # "nil"))

\* the Weavebox has one context bound, a box made from it afterwards another,
\* and a request for the route of the box received the one of the box
C16_Witness ==
    /\ Len(context) >= 2
    /\ context[Root] = "ctxA"
    /\ last.box = 2
    /\ last.ctx = "ctxB"

\* C17: a request is written to the access-log only after the user has
\* enabled the log.
C17_LogDisabledByDefault == last.logged => logSetByUser

\* a request to the Weavebox as New() made it was written to the access-log
C17_Witness ==
    /\ Served
    /\ last.logged
    /\ ~logSetByUser

\* C27: when no handler returns an error, a request runs every handler
\* registered so far with Use of the box of its route, those registered
\* after the route included; and of the handlers of the boxes it descends
\* from it runs only those the box had when it was made, none that was
\* given to Use of the parent afterwards.
C27_MiddlewareAtServeTime ==
    Served =>
      /\ NoErrors
           => \A i \in DOMAIN registered[last.box] :
                Owner(registered[last.box][i]) = last.box
                  => \E k \in DOMAIN last.ran :
                       last.ran[k] = registered[last.box][i]
      /\ \A k \in DOMAIN last.ran :
           Owner(last.ran[k]) \in AncestorsOf(last.box) \ {last.box}
             => \E i \in DOMAIN registered[last.box] :
                  registered[last.box][i] = last.ran[k]

\* a request for a route of a box ran a handler that was given to Use of the
\* box it was made from after it was made
C27_Witness ==
    /\ Served
    /\ last.box # Root
    /\ \E k \in DOMAIN last.ran :
         /\ Owner(last.ran[k]) = parent[last.box]
         /\ \A i \in DOMAIN registered[last.box] :
              registered[last.box][i] # last.ran[k]


\* ----------------------------------------------------- claims: the response
\* C28: the access-log line of a request carries the status the wrapped
\* ResponseWriter sent to the client and the number of bytes it reported
\* written; a handler that never writes is logged with the status the
\* client receives.
C28_LoggedStatusIsSentStatus ==
    (rw.phase = "done" /\ logLine.printed) =>
        /\ logLine.status = rw.status
        /\ logLine.size = rw.written

\* a request whose handler wrote nothing: the client received 200 and the
\* line says 0
C28_Witness ==
    /\ rw.phase = "done"
    /\ logLine.printed
    /\ rw.written = 0
    /\ rw.status = StatusOK
    /\ logLine.status = 0

\* C29: Context.Redirect issues the redirect with the code and returns nil
\* exactly when the code is in 300..307; with any other code it returns the
\* "invalid redirect code" error and writes nothing to the response.
C29_RedirectRange ==
    [][redirect' # NoCall =>
        LET code == redirect'.code
            valid == code >= 300 /\ code <= 307
        IN  /\ redirect'.err \in {NoError, ErrInvalidRedirect}
            /\ (redirect'.err = NoError) <=> valid
            /\ ~valid => logger' = logger /\ rw' = rw
            /\ valid =>
                 /\ logger'.status = code
                 /\ rw'.wroteHeader
                 /\ ~rw.wroteHeader => rw'.status = code]_vars

\* a redirect with the largest accepted code went out to the client
C29_Witness ==
    /\ redirect.code = StatusTemporaryRedirect
    /\ redirect.err = NoError
    /\ rw.status = StatusTemporaryRedirect

====
